---------------------------- MODULE Spec2Model ----------------------------
(***************************************************************************)
(* A model of Helper Scripts/convert_ipynb_to_txt.py: the cell renderer    *)
(* (extract_text_from_cell), the document renderer (convert_notebook),     *)
(* file discovery (find_ipynb_files) and the per-file loop of main.        *)
(*                                                                         *)
(* Text is a sequence of tokens.  A token is either one character of user  *)
(* data ("a", " ", "\n") or one literal piece of a format string of the    *)
(* program ("Cell type: ", "-- Code --").  Concatenation of Python strings *)
(* is concatenation of token sequences.                                    *)
(*                                                                         *)
(* A JSON value that a dict may hold under a key is a tagged record:       *)
(* p = "absent" (no such key), p = "null" (JSON null, Python None) or      *)
(* p = "val" with the value in v.                                          *)
(***************************************************************************)
EXTENDS Integers, Sequences, FiniteSets, TLC

VARIABLES
    cell,        \* SpecCell: the argument of extract_text_from_cell
    rendered,    \* SpecCell: what the call returned or raised (Pending before)
    args,        \* main: parsed command line, [overwrite |-> BOOLEAN]
    target,      \* what args.path names on disk: missing, a file, a directory
    content,     \* the document held by each input file name
    outdirExists,\* whether the output directory exists
    files,       \* output directory: stem -> absent | file with text | dir
    paths,       \* main: list(find_ipynb_files(args.path))
    idx,         \* main: number of loop iterations completed
    pc,          \* main: "start", "loop", "done" (returned), "raised" (uncaught)
    ret,         \* main: return value (-1 while none)
    exc,         \* main: class of the exception that left main ("none" if none)
    log,         \* main: lines printed to standard output in this run
    run,         \* number of invocations of main started so far
    written      \* history: text each input's last successful conversion wrote

vars == <<cell, rendered, args, target, content, outdirExists, files, paths,
          idx, pc, ret, exc, log, run, written>>

cellVars == <<cell, rendered>>
mainVars == <<args, target, content, outdirExists, files, paths, idx, pc, ret,
              exc, log, run, written>>

---------------------------------------------------------------------------
(* Bounds of the model *)

MaxFrags == 2
MaxOutputs == 2
MaxCells == 2
MaxRuns == 2

---------------------------------------------------------------------------
(* JSON values and Python helpers *)

Absent == [p |-> "absent"]
Null == [p |-> "null"]
Val(v) == [p |-> "val", v |-> v]

\* dict.get(key, default): the default only when the key is absent
Get(field, default) == IF field.p = "absent" THEN Val(default) ELSE field

\* x or []  for x a list or None
OrEmpty(x) == IF x.p = "val" /\ x.v # <<>> THEN x.v ELSE <<>>

\* truth value of a list or None
Truthy(x) == x.p = "val" /\ x.v # <<>>

\* str(x) of a string or None inside an f-string
PyStr(x) == IF x.p = "val" THEN x.v ELSE "None"

Whitespace == {" ", "\n", "\t"}

RECURSIVE rstrip(_)
rstrip(s) ==
    IF s # <<>> /\ s[Len(s)] \in Whitespace
    THEN rstrip(SubSeq(s, 1, Len(s) - 1))
    ELSE s

\* "".join(list)
RECURSIVE JoinEmpty(_)
JoinEmpty(list) ==
    IF list = <<>> THEN <<>> ELSE Head(list) \o JoinEmpty(Tail(list))

\* "\n".join(list)
RECURSIVE JoinNL(_)
JoinNL(list) ==
    IF list = <<>> THEN <<>>
    ELSE IF Len(list) = 1 THEN Head(list)
    ELSE Head(list) \o <<"\n">> \o JoinNL(Tail(list))

Dashes == "--------------------------------------------------------------------------------"

CELL_SEPARATOR == <<"\n", Dashes, "\n">>

\* the outcome of a call: the text it returned, or the exception it raised
Returned(text) == [ok |-> TRUE, text |-> text, err |-> "none", msg |-> "none"]
Raised(cls, msg) == [ok |-> FALSE, text |-> <<>>, err |-> cls, msg |-> msg]

NoGetOnInt == "'int' object has no attribute 'get'"
NoGetOnList == "'list' object has no attribute 'get'"
NoGetOnNone == "'NoneType' object has no attribute 'get'"
JoinOfNone == "can only join an iterable"

---------------------------------------------------------------------------
(* extract_text_from_cell *)

\* lines 52-54: the text of one output
TextLines(out) ==
    IF Truthy(out.text)                 \* out.get("text") is None when absent
    THEN Returned(<<rstrip(JoinEmpty(out.text.v))>>)
    ELSE Returned(<<>>)

\* lines 56-60: the text/plain entry of the data of one output
DataLines(out) ==
    LET data == out.data
    IN  IF data.p # "val" THEN Returned(<<>>)                           \* or {}
        ELSE IF data.v.k # "dict" THEN Returned(<<>>)                   \* isinstance
        ELSE IF data.v.tp.p = "absent" THEN Returned(<<>>)              \* in data
        ELSE IF data.v.tp.p = "null" THEN Raised("TypeError", JoinOfNone)
        ELSE Returned(<<rstrip(JoinEmpty(data.v.tp.v))>>)

\* lines 63-65: the traceback lines of one error output
TracebackLines(out, out_type) ==
    IF out_type.p = "val" /\ out_type.v = "error"
    THEN LET tb == OrEmpty(out.traceback)
         IN  Returned([i \in 1..Len(tb) |-> rstrip(tb[i])])
    ELSE Returned(<<>>)

\* the order in which lines 54, 60 and 65 extend out_lines
OutputBody(t, d, tb) == t \o d \o tb

\* lines 48-65: the lines one output adds to out_lines
OutputLines(oi, out) ==
    IF out.k # "dict" THEN Raised("AttributeError", NoGetOnInt)
    ELSE LET out_type == Get(out.output_type, "output")
             hdr == <<"[", ToString(oi), "] output_type: ", PyStr(out_type)>>
             t == TextLines(out)
             d == DataLines(out)
             tb == TracebackLines(out, out_type)
         IN  IF ~d.ok THEN d
             ELSE Returned(<<hdr>> \o OutputBody(t.text, d.text, tb.text))

\* lines 47-65: the loop over enumerate(outputs, start=1)
RECURSIVE OutputsLoop(_, _, _)
OutputsLoop(outputs, oi, out_lines) ==
    IF oi > Len(outputs) THEN Returned(out_lines)
    ELSE LET r == OutputLines(oi, outputs[oi])
         IN  IF ~r.ok THEN r
             ELSE OutputsLoop(outputs, oi + 1, out_lines \o r.text)

\* faulty variant: the outputs are rendered for every cell type
HasOutputsSectionAny(cell_type, outputs) == outputs # <<>>

\* lines 39 and 45: the branch that renders the outputs
HasOutputsSection(cell_type, outputs) ==
    cell_type.p = "val" /\ cell_type.v = "code" /\ outputs # <<>>

\* lines 35-41 and 69-71: the label and the source of the cell
SourceParts(cell_type, source) ==
    IF cell_type.p = "val" /\ cell_type.v = "markdown"
    THEN <<<<"-- Markdown --">>, rstrip(source)>>
    ELSE IF cell_type.p = "val" /\ cell_type.v = "code"
    THEN <<<<"-- Code --">>, rstrip(source)>>
    ELSE <<rstrip(source)>>

extract_text_from_cell(c) ==
    IF c.k # "dict" THEN Raised("AttributeError", NoGetOnInt)
    ELSE LET cell_type == Get(c.cell_type, "unknown")
             source == JoinEmpty(OrEmpty(Get(c.source, <<>>)))
             parts == <<<<"Cell type: ", PyStr(cell_type)>>>>
                          \o SourceParts(cell_type, source)
             outputs == OrEmpty(Get(c.outputs, <<>>))
         IN  IF HasOutputsSection(cell_type, outputs)
             THEN LET r == OutputsLoop(outputs, 1, <<<<"-- Outputs --">>>>)
                  IN  IF ~r.ok THEN r
                      ELSE Returned(JoinNL(parts \o <<JoinNL(r.text)>>))
             ELSE Returned(JoinNL(parts))

---------------------------------------------------------------------------
(* The cells the renderer is applied to *)

BoundedSeq(S, n) == UNION {[1..k -> S] : k \in 0..n}

Fragments == {<<"a", "\n">>, <<" ">>}

Output(ot, text, data, tb) ==
    [k |-> "dict", output_type |-> ot, text |-> text, data |-> data, traceback |-> tb]

DataDict(tp) == [k |-> "dict", tp |-> tp]
DataList == [k |-> "list", tp |-> Absent]

OutputCatalogue ==
    { Output(Val("stream"), Val(<<<<"1", "\n">>>>), Absent, Absent),
      Output(Val("execute_result"), Absent, Val(DataDict(Val(<<<<"2", " ">>>>))), Absent),
      Output(Val("error"), Null, Null, Val(<<<<"E", " ">>, <<"F">>>>)),
      Output(Absent, Absent, Absent, Absent),
      Output(Val("error"), Val(<<<<"1">>, <<"\n">>>>), Val(DataDict(Val(<<<<"2">>>>))),
             Val(<<<<"E">>>>)),
      Output(Val("stream"), Val(<<>>), Val(DataDict(Absent)), Val(<<<<"E">>>>)),
      Output(Val("execute_result"), Absent, Val(DataDict(Null)), Absent),
      Output(Val("error"), Absent, Val(DataList), Null),
      [k |-> "int"] }

OptionalList(S, n) == {Absent, Null} \cup {Val(l) : l \in BoundedSeq(S, n)}

Cell(ct, source, outputs) ==
    [k |-> "dict", cell_type |-> ct, source |-> source, outputs |-> outputs]

CellTypes == {Absent, Null, Val("markdown"), Val("code"), Val("raw")}

Cells ==
    { Cell(ct, src, outs) :
        ct \in CellTypes,
        src \in OptionalList(Fragments, MaxFrags),
        outs \in OptionalList(OutputCatalogue, MaxOutputs) }
    \cup {[k |-> "int"]}

Pending == [ok |-> FALSE, text |-> <<>>, err |-> "pending", msg |-> "none"]

---------------------------------------------------------------------------
(* SpecCell: extract_text_from_cell applied to one cell *)

IdleMain ==
    /\ args = [overwrite |-> FALSE]
    /\ target = [kind |-> "missing"]
    /\ content = <<>>
    /\ outdirExists = FALSE
    /\ files = <<>>
    /\ paths = <<>>
    /\ idx = 0
    /\ pc = "idle"
    /\ ret = -1
    /\ exc = "none"
    /\ log = <<>>
    /\ run = 0
    /\ written = <<>>

InitCell ==
    /\ cell \in Cells
    /\ rendered = Pending
    /\ IdleMain

Render ==
    /\ rendered = Pending
    /\ rendered' = extract_text_from_cell(cell)
    /\ UNCHANGED cell
    /\ UNCHANGED mainVars

NextCell == Render

SpecCell == InitCell /\ [][NextCell]_vars

---------------------------------------------------------------------------
(* Paths and find_ipynb_files *)

Name(stem, ext) == [stem |-> stem, ext |-> ext]

Names == {Name("a", ".ipynb"), Name("b", ".IPYNB"), Name("c", ".txt")}

InputDir == "in"

\* os.path.join(path, name) and os.path.basename(path)
Join(dir, name) == [dir |-> dir, name |-> name]
basename(path) == path.name

\* the characters of a file name
NameStr(name) == <<name.stem, name.ext>>

\* str.lower() on an extension
Lower(ext) == IF ext = ".IPYNB" THEN ".ipynb" ELSE ext

\* name.lower().endswith(".ipynb")
EndsWithIpynb(name) == Lower(name.ext) = ".ipynb"

\* os.path.splitext(os.path.basename(ipynb))[0]
Base(path) == basename(path).stem

\* the code points that decide the order of two names of Names
CodePoint(ch) ==
    CASE ch = "a" -> 97 [] ch = "b" -> 98 [] ch = "c" -> 99
      [] ch = ".IPYNB" -> 73 [] ch = ".ipynb" -> 105 [] ch = ".txt" -> 116

\* string order on file names: the stem first, then the extension
NameLess(m, n) ==
    \/ CodePoint(m.stem) < CodePoint(n.stem)
    \/ m.stem = n.stem /\ CodePoint(m.ext) < CodePoint(n.ext)

\* sorted(os.listdir(path))
RECURSIVE Sorted(_)
Sorted(S) ==
    IF S = {} THEN <<>>
    ELSE LET least == CHOOSE m \in S : \A n \in S \ {m} : NameLess(m, n)
         IN  <<least>> \o Sorted(S \ {least})

\* the names of seq that end in .ipynb, joined to dir, in order
RECURSIVE YieldIpynb(_, _)
YieldIpynb(dir, seq) ==
    IF seq = <<>> THEN <<>>
    ELSE IF EndsWithIpynb(Head(seq))
         THEN <<Join(dir, Head(seq))>> \o YieldIpynb(dir, Tail(seq))
         ELSE YieldIpynb(dir, Tail(seq))

find_ipynb_files(t) ==
    IF t.kind = "file"
    THEN IF EndsWithIpynb(t.name) THEN <<Join("", t.name)>> ELSE <<>>
    ELSE IF t.kind = "dir"
    THEN YieldIpynb(InputDir, Sorted(t.entries))
    ELSE <<>>

Targets ==
    {[kind |-> "missing"]}
    \cup {[kind |-> "file", name |-> n] : n \in Names}
    \cup {[kind |-> "dir", entries |-> E] : E \in SUBSET Names}

\* the names at t that main reads
Candidates(t) ==
    IF t.kind = "file" THEN {n \in {t.name} : EndsWithIpynb(n)}
    ELSE IF t.kind = "dir" THEN {n \in t.entries : EndsWithIpynb(n)}
    ELSE {}

---------------------------------------------------------------------------
(* Notebook documents *)

Doc(metadata, cells) == [k |-> "dict", metadata |-> metadata, cells |-> cells]

Metadata(kernelspec) == [k |-> "dict", kernelspec |-> kernelspec]

MarkdownCell == Cell(Val("markdown"), Val(<<<<"t", "\n">>>>), Absent)

CodeCell ==
    Cell(Val("code"), Val(<<<<"p">>>>),
         Val(<<Output(Val("stream"), Val(<<<<"1", "\n">>>>), Absent, Absent)>>))

DocCells == {MarkdownCell, CodeCell}

\* what an input file may hold: a file that cannot be opened, bytes that are
\* not JSON, a JSON array, or a JSON object
Docs ==
    { [k |-> "unreadable"], [k |-> "invalid"], [k |-> "list"] }
    \cup { Doc(Absent, Val(cs)) : cs \in BoundedSeq(DocCells, MaxCells) }
    \cup { Doc(Absent, Val(<<[k |-> "int"]>>)),
           Doc(Absent, Val(<<CodeCell, [k |-> "int"], MarkdownCell>>)),
           Doc(Null, Val(<<MarkdownCell>>)),
           Doc(Val(Metadata(Absent)), Absent),
           Doc(Val(Metadata(Null)), Null),
           Doc(Val(Metadata(Val("python3"))), Val(<<CodeCell>>)) }

---------------------------------------------------------------------------
(* convert_notebook *)

NoFile == [kind |-> "absent", text |-> <<>>]
File(text) == [kind |-> "file", text |-> text]
Directory == [kind |-> "dir", text |-> <<>>]

\* the outcome of convert_notebook: the exception raised, if any, and what
\* the output path holds afterwards
Outcome(r, slot) == [raised |-> ~r.ok, err |-> r.err, msg |-> r.msg, file |-> slot]

\* faulty variant: the output file is opened before the input is loaded
LoadFailureTruncating(r, prev) ==
    Outcome(r, IF prev.kind = "dir" THEN prev ELSE File(<<>>))

\* lines 78-81 run before line 83: a failure there leaves the output path alone
LoadFailure(r, prev) == Outcome(r, prev)

\* faulty variant: the output file is opened for appending
OpenedForAppend(prev) == prev.text

\* line 83: mode "w" creates the file or truncates it
Opened(prev) == <<>>

\* str() of the kernelspec value: None, or the dict {"name": ks.v}
KernelspecStr(ks) ==
    IF ks.p = "null" THEN <<"None">> ELSE <<"{'name': '", ks.v, "'}">>

\* line 85: the text of the Kernelspec line, or the exception of the lookups
KernelspecLine(nb) ==
    LET metadata == Get(nb.metadata, [k |-> "dict", kernelspec |-> Absent])
    IN  IF metadata.p = "null" THEN Raised("AttributeError", NoGetOnNone)
        ELSE LET ks == metadata.v.kernelspec
             IN  Returned(<<"Kernelspec: ">>
                          \o (IF ks.p = "absent" THEN <<"{}">> ELSE KernelspecStr(ks))
                          \o <<"\n">>)

\* faulty variant: enumerate(cells) without start=1
CellHeaderFromZero(i) == <<"Cell ", ToString(i - 1), "\n">>

\* line 89
CellHeader(i) == <<"Cell ", ToString(i), "\n">>

\* lines 88-91: the loop over enumerate(cells, start=1); out is the text
\* written so far
RECURSIVE WriteCells(_, _, _)
WriteCells(cells, i, out) ==
    IF i > Len(cells) THEN Outcome(Returned(<<>>), File(out))
    ELSE LET header == out \o CellHeader(i)
             r == extract_text_from_cell(cells[i])
         IN  IF ~r.ok THEN Outcome(r, File(header))
             ELSE WriteCells(cells, i + 1, header \o r.text \o CELL_SEPARATOR)

convert_notebook(doc, ipynb_path, prev) ==
    IF doc.k = "unreadable"
    THEN LoadFailure(Raised("OSError", "cannot open the input"), prev)
    ELSE IF doc.k = "invalid"
    THEN LoadFailure(Raised("JSONDecodeError", "Expecting value"), prev)
    ELSE IF doc.k # "dict"
    THEN LoadFailure(Raised("AttributeError", NoGetOnList), prev)
    ELSE IF prev.kind = "dir"
    THEN Outcome(Raised("OSError", "Is a directory"), prev)
    ELSE LET cells == OrEmpty(Get(doc.cells, <<>>))
             first == Opened(prev) \o <<"Notebook: ">>
                          \o NameStr(basename(ipynb_path)) \o <<"\n">>
             ksl == KernelspecLine(doc)
         IN  IF ~ksl.ok THEN Outcome(ksl, File(first))
             ELSE WriteCells(cells, 1, first \o ksl.text \o CELL_SEPARATOR)

---------------------------------------------------------------------------
(* main *)

Stems == {n.stem : n \in {m \in Names : EndsWithIpynb(m)}}

OldText == <<"old">>

\* os.path.join(target_dir, base + ".txt")
TxtPath(base) == Join("out", Name(base, ".txt"))

Line(fmt, ipynb, txt, msg) == [fmt |-> fmt, ipynb |-> ipynb, txt |-> txt, msg |-> msg]

NoPath == Join("", Name("", ""))

NoFilesLine == Line("No .ipynb files found at: {}", NoPath, NoPath, "none")
SkippedLine(txt) ==
    Line("Skipping existing file (use --overwrite to replace): {}", NoPath, txt, "none")
ConvertedLine(ipynb, txt) == Line("Converted: {} -> {}", ipynb, txt, "none")
FailedLine(ipynb, msg) == Line("Failed to convert {}: {}", ipynb, NoPath, msg)

\* faulty variant: the handler catches OSError alone
CatchesOSErrorOnly(cls) == cls = "OSError"

\* line 142: except Exception catches every class that convert_notebook raises
Catches(cls) == cls \in {"OSError", "JSONDecodeError", "AttributeError", "TypeError"}

\* faulty variant: the test of --overwrite is inverted
ShouldSkipInverted(exists, overwrite) == exists /\ overwrite

\* line 135
ShouldSkip(exists, overwrite) == exists /\ ~overwrite

\* os.path.exists(txt_path)
Exists(slot) == slot.kind # "absent"

NeverWritten == [count |-> 0, text |-> <<>>]

Init ==
    /\ cell = [k |-> "int"]
    /\ rendered = Pending
    /\ args \in [overwrite : BOOLEAN]
    /\ target \in Targets
    /\ content \in [Candidates(target) -> Docs]
    /\ outdirExists \in BOOLEAN
    /\ files \in [Stems -> {NoFile, File(OldText), Directory}]
    /\ (~outdirExists => \A st \in Stems : files[st] = NoFile)
    /\ paths = <<>>
    /\ idx = 0
    /\ pc = "start"
    /\ ret = -1
    /\ exc = "none"
    /\ log = <<>>
    /\ run = 1
    /\ written = [n \in Candidates(target) |-> NeverWritten]

\* lines 121-124
Discover ==
    /\ pc = "start"
    /\ paths' = find_ipynb_files(target)
    /\ IF paths' = <<>>
       THEN /\ log' = Append(log, NoFilesLine)
            /\ ret' = 2
            /\ pc' = "done"
       ELSE /\ pc' = "loop"
            /\ UNCHANGED <<log, ret>>
    /\ UNCHANGED <<cell, rendered, args, target, content, outdirExists, files,
                   idx, exc, run, written>>

\* line 132 when os.makedirs raises: nothing in main catches it
MakedirsFails ==
    /\ pc = "loop"
    /\ idx < Len(paths)
    /\ ~outdirExists
    /\ pc' = "raised"
    /\ exc' = "OSError"
    /\ UNCHANGED <<cell, rendered, args, target, content, outdirExists, files,
                   paths, idx, ret, log, run, written>>

\* lines 129-143: one iteration of the loop, os.makedirs having succeeded
ConvertOne ==
    /\ pc = "loop"
    /\ idx < Len(paths)
    /\ outdirExists' = TRUE
    /\ LET ipynb == paths[idx + 1]
           base == Base(ipynb)
           txt_path == TxtPath(base)
       IN  IF ShouldSkip(Exists(files[base]), args.overwrite)
           THEN /\ log' = Append(log, SkippedLine(txt_path))
                /\ idx' = idx + 1
                /\ UNCHANGED <<files, written, pc, exc>>
           ELSE LET o == convert_notebook(content[basename(ipynb)], ipynb, files[base])
                IN  /\ files' = [files EXCEPT ![base] = o.file]
                    /\ IF ~o.raised
                       THEN /\ log' = Append(log, ConvertedLine(ipynb, txt_path))
                            /\ written' = [written EXCEPT ![basename(ipynb)] =
                                             [count |-> @.count + 1, text |-> o.file.text]]
                            /\ idx' = idx + 1
                            /\ UNCHANGED <<pc, exc>>
                       ELSE IF Catches(o.err)
                       THEN /\ log' = Append(log, FailedLine(ipynb, o.msg))
                            /\ idx' = idx + 1
                            /\ UNCHANGED <<written, pc, exc>>
                       ELSE /\ pc' = "raised"
                            /\ exc' = o.err
                            /\ UNCHANGED <<written, log, idx>>
    /\ UNCHANGED <<cell, rendered, args, target, content, paths, ret, run>>

\* line 145
Return ==
    /\ pc = "loop"
    /\ idx = Len(paths)
    /\ ret' = 0
    /\ pc' = "done"
    /\ UNCHANGED <<cell, rendered, args, target, content, outdirExists, files,
                   paths, idx, exc, log, run, written>>

\* the program is started again on the same path, with or without --overwrite
Rerun ==
    /\ pc \in {"done", "raised"}
    /\ run < MaxRuns
    /\ run' = run + 1
    /\ args' \in [overwrite : BOOLEAN]
    /\ paths' = <<>>
    /\ idx' = 0
    /\ pc' = "start"
    /\ ret' = -1
    /\ exc' = "none"
    /\ log' = <<>>
    /\ UNCHANGED <<cell, rendered, target, content, outdirExists, files, written>>

Next == Discover \/ MakedirsFails \/ ConvertOne \/ Return \/ Rerun

Spec == Init /\ [][Next]_vars

---------------------------------------------------------------------------
(* Properties of main and convert_notebook, checked under Spec *)

Terminal == {"done", "raised"}
Iterating == pc = "loop" /\ idx < Len(paths)
Current == paths[idx + 1]
FailedFmt == "Failed to convert {}: {}"
ConvertedFmt == "Converted: {} -> {}"
SkippedFmt == "Skipping existing file (use --overwrite to replace): {}"

CountToken(text, tok) == Cardinality({i \in 1..Len(text) : text[i] = tok})

IsLineFor(line, path) ==
    IF line.fmt = SkippedFmt THEN line.txt = TxtPath(Base(path))
    ELSE line.fmt \in {FailedFmt, ConvertedFmt} /\ line.ipynb = path

C1Step ==
    LET o == convert_notebook(content[basename(Current)], Current,
                              files[Base(Current)])
    IN  ( /\ Iterating
          /\ outdirExists'
          /\ ~(Exists(files[Base(Current)]) /\ ~args.overwrite)
          /\ o.raised )
        => /\ log' = Append(log, FailedLine(Current, o.msg))
           /\ idx' = idx + 1
           /\ pc' = "loop"

C1Inv ==
    (\E i \in 1..Len(log) : log[i].fmt = FailedFmt)
    => /\ pc # "raised"
       /\ \A i \in 1..Len(log) : i <= Len(paths) /\ IsLineFor(log[i], paths[i])
       /\ pc = "done" => ret = 0 /\ Len(log) = Len(paths)

\* C1: when convert_notebook raises for a file, main prints
\* "Failed to convert <path>: <message>", goes on to the next file, every
\* later file gets its own line (converted, skipped or failed), and main
\* returns 0.
C1_FailureReportedAndBatchContinues == [][C1Step]_vars /\ []C1Inv

C1_Witness ==
    /\ pc = "done"
    /\ ret = 0
    /\ Len(log) = 2
    /\ log[1].fmt = FailedFmt
    /\ log[2].fmt = ConvertedFmt

C2Step ==
    (Iterating /\ ~outdirExists /\ ~outdirExists')
    => /\ pc' = "loop"
       /\ idx' = idx + 1
       /\ Len(log') = Len(log) + 1
       /\ log'[Len(log')].fmt = FailedFmt
       /\ log'[Len(log')].ipynb = Current

\* C2: when the output directory cannot be created for a file, the failure
\* is reported for that file and the loop goes on to the next file; no error
\* leaves main.
C2_MakedirsFailureReportedPerFile == [][C2Step]_vars

C3Step ==
    (Iterating /\ ~args.overwrite /\ Exists(files[Base(Current)]))
    => /\ files' = files
       /\ written' = written
       /\ log' = Append(log, SkippedLine(TxtPath(Base(Current))))
       /\ idx' = idx + 1
       /\ pc' = "loop"

\* C3: without --overwrite, a notebook whose output file exists when the
\* loop reaches it is reported as skipped, convert_notebook is not called
\* for it and the output directory is left as it was.
C3_ExistingOutputSkippedUnchanged == [][C3Step]_vars

\* a second run without --overwrite skips the file the first run wrote
C3_Witness ==
    /\ run = 2
    /\ ~args.overwrite
    /\ \E i \in 1..Len(log) :
         /\ log[i].fmt = SkippedFmt
         /\ written[basename(paths[i])].count = 1
         /\ files[Base(paths[i])] = File(written[basename(paths[i])].text)

\* every text a successful conversion of some document of Docs writes
CompleteRenderings ==
    { o.file.text :
        o \in { r \in { convert_notebook(d, Join(dir, n), NoFile) :
                          d \in Docs, n \in {m \in Names : EndsWithIpynb(m)},
                          dir \in {"", InputDir} } : ~r.raised } }

\* C4: after a failed conversion the output path does not hold a partial
\* file: it does not exist, or it holds what it held before, or a complete
\* rendering.
C4_NoPartialOutputAfterFailure ==
    \A i \in 1..Len(log) :
        log[i].fmt = FailedFmt
        => LET f == files[Base(log[i].ipynb)]
           IN  f.kind = "file" => f.text = OldText \/ f.text \in CompleteRenderings

C5Step ==
    (pc \notin Terminal /\ pc' \in Terminal)
    => /\ ret' = 2 <=> paths' = <<>>
       /\ paths' = <<>> => files' = files /\ outdirExists' = outdirExists
       /\ paths' # <<>> => ret' = 0

\* C5: main returns 2 exactly when no candidate is found, and then creates
\* and writes nothing; whenever a candidate is found main returns 0.
C5_ExitCode == [][C5Step]_vars

CellsOf(nb) == OrEmpty(Get(nb.cells, <<>>))

C6Holds(nb, T) ==
    LET cs == CellsOf(nb)
        n == Len(cs)
        blocks == [k \in 1..n |->
                     <<"Cell ", ToString(k), "\n">>
                     \o extract_text_from_cell(cs[k]).text \o CELL_SEPARATOR]
        tail == CELL_SEPARATOR \o JoinEmpty(blocks)
        h == Len(T) - Len(tail)
    IN  /\ h >= 0
        /\ SubSeq(T, h + 1, Len(T)) = tail
        /\ CountToken(T, "Cell ") = n
        /\ CountToken(T, Dashes) = n + 1
        /\ SubSeq(T, Len(T) - 2, Len(T)) = CELL_SEPARATOR

\* C6: a successful conversion of a notebook with n cells writes the header,
\* one separator, and then for i = 1..n in order the line "Cell i", the
\* rendering of the i-th cell and one separator; there are exactly n "Cell"
\* lines and the text ends with a separator.
C6_CellsInOrder ==
    \A i \in 1..Len(log) :
        log[i].fmt = ConvertedFmt
        => C6Holds(content[basename(log[i].ipynb)], files[Base(log[i].ipynb)].text)

C6_Witness ==
    \E i \in 1..Len(log) :
        /\ log[i].fmt = ConvertedFmt
        /\ CellsOf(content[basename(log[i].ipynb)]) = <<MarkdownCell, CodeCell>>

C7Step ==
    \A n \in DOMAIN written :
        written'[n].count > written[n].count
        => /\ files'[n.stem] = File(written'[n].text)
           /\ written[n].count >= 1 => written'[n].text = written[n].text

\* C7: every successful conversion of an input writes the same text as the
\* previous successful conversion of that input did, whatever the output
\* path held before.
C7_ConversionIdempotent == [][C7Step]_vars

C7_Witness ==
    \E n \in DOMAIN written :
        /\ written[n].count = 2
        /\ args.overwrite
        /\ files[n.stem] = File(written[n].text)

C10Step ==
    ( /\ Iterating
      /\ idx' = idx + 1
      /\ content[basename(Current)].k \in {"invalid", "list"} )
    => /\ files' = files
       /\ (args.overwrite \/ ~Exists(files[Base(Current)]))
          => log'[Len(log')].fmt = FailedFmt

\* C10: when the input is not JSON or its top level is not an object, the
\* conversion fails and the output path is left as it was, also with
\* --overwrite.
C10_LoadFailureLeavesOutput == [][C10Step]_vars

C10_Witness ==
    /\ args.overwrite
    /\ \E i \in 1..Len(log) :
         /\ log[i].fmt = FailedFmt
         /\ content[basename(log[i].ipynb)].k \in {"invalid", "list"}
         /\ files[Base(log[i].ipynb)] = File(OldText)

---------------------------------------------------------------------------
(* Properties of extract_text_from_cell, checked under SpecCell *)

\* a cell all of whose fields are absent, null or of the expected shape
ShapedCell(c) ==
    /\ c.k = "dict"
    /\ c.outputs.p = "val"
       => \A i \in 1..Len(c.outputs.v) :
            /\ c.outputs.v[i].k = "dict"
            /\ c.outputs.v[i].data.p = "val" => c.outputs.v[i].data.v.k = "dict"

EmptiedList(x) == IF x.p = "val" THEN x ELSE Val(<<>>)

EmptiedOutput(o) ==
    Output(o.output_type, EmptiedList(o.text),
           IF o.data.p = "val"
           THEN Val(DataDict(IF o.data.v.tp.p = "val" THEN o.data.v.tp ELSE Absent))
           ELSE Val(DataDict(Absent)),
           EmptiedList(o.traceback))

\* c with every absent or null field replaced by an empty value
EmptiedCell(c) ==
    Cell(c.cell_type, EmptiedList(c.source),
         IF c.outputs.p = "val"
         THEN Val([i \in 1..Len(c.outputs.v) |-> EmptiedOutput(c.outputs.v[i])])
         ELSE Val(<<>>))

\* C8: a field that is absent or null is treated as empty: rendering does
\* not fail, and the text is the text of the cell with the field empty.
C8_AbsentOrNullIsEmpty ==
    (rendered # Pending /\ ShapedCell(cell))
    => /\ rendered.ok
       /\ rendered.text = extract_text_from_cell(EmptiedCell(cell)).text

C9Text(o) ==
    IF o.text.p = "val" /\ o.text.v # <<>>
    THEN <<rstrip(JoinEmpty(o.text.v))>> ELSE <<>>

C9Data(o) ==
    IF o.data.p = "val" /\ o.data.v.k = "dict" /\ o.data.v.tp.p = "val"
    THEN <<rstrip(JoinEmpty(o.data.v.tp.v))>> ELSE <<>>

C9Traceback(o) ==
    IF o.output_type = Val("error") /\ o.traceback.p = "val"
    THEN [j \in 1..Len(o.traceback.v) |-> rstrip(o.traceback.v[j])] ELSE <<>>

C9Output(k, o) ==
    <<<<"[", ToString(k), "] output_type: ",
        IF o.output_type.p = "val" THEN o.output_type.v
        ELSE IF o.output_type.p = "null" THEN "None" ELSE "output">>>>
    \o C9Text(o) \o C9Data(o) \o C9Traceback(o)

C9Section(outputs) ==
    JoinNL(<<<<"-- Outputs --">>>>
           \o JoinEmpty([k \in 1..Len(outputs) |-> C9Output(k, outputs[k])]))

\* C9: the rendering has an "-- Outputs --" section exactly when the cell is
\* a code cell with a non-empty outputs list; the section ends the text and
\* holds, for k = 1..m in order, the line "[k] output_type: <type>", then the
\* text, then the text/plain entry of the data, then (for an error output)
\* the traceback lines.
C9_OutputsSection ==
    rendered.ok
    => LET T == rendered.text
           at == {i \in 1..Len(T) : T[i] = "-- Outputs --"}
           code == /\ cell.cell_type = Val("code")
                   /\ cell.outputs.p = "val"
                   /\ cell.outputs.v # <<>>
       IN  /\ at # {} <=> code
           /\ code => /\ Cardinality(at) = 1
                      /\ \A i \in at : SubSeq(T, i, Len(T)) = C9Section(cell.outputs.v)
                      /\ CountToken(T, "] output_type: ") = Len(cell.outputs.v)

C9_Witness ==
    /\ rendered.ok
    /\ cell.cell_type = Val("code")
    /\ cell.outputs.p = "val"
    /\ Len(cell.outputs.v) = 2
    /\ cell.outputs.v[2].output_type = Val("error")
    /\ cell.outputs.v[2].text.p = "val"
    /\ cell.outputs.v[2].data.p = "val"
    /\ cell.outputs.v[2].traceback.p = "val"

=============================================================================
